---- MODULE Spec2Model ----
(***************************************************************************)
(* Model of the catalyst command surface (src/main.py): the click commands *)
(* run, live, remote-run, remote-status and ingest-exchange.  One command  *)
(* invocation is followed from option parsing through validation, the call *)
(* of the external collaborator and the writing of the result artifacts.   *)
(* Everything the invocation makes visible (diagnostics, console lines,    *)
(* collaborator calls, file writes) is appended to `trace` in the order    *)
(* the code produces it.                                                   *)
(***************************************************************************)
EXTENDS Integers, Sequences, FiniteSets, TLC

\* ------------------------------------------------------------------ values
\* Python's None (an option that was not supplied)
None == "<None>"
\* os.devnull, the discard sentinel
DEVNULL == "/dev/null"
\* str(x) as used by click.echo(str(log)) and str(perf)
Str(x) == IF x = None THEN "None" ELSE x

\* longest generated --mail value, in characters
MaxMailLen == 5
\* the characters mail values are built from: an ordinary one, '@' and '.'
MailChars == {"a", "@", "."}
\* the absent --mail (Python None); differs from every string
NoMail == <<None>>
\* 'ops@example.com'
OpsMail == <<"o", "p", "s", "@", "e", "x", "a", "m", "p", "l", "e", ".", "c", "o", "m">>
\* 'not-an-email'
NotAnEmail == <<"n", "o", "t", "-", "a", "n", "-", "e", "m", "a", "i", "l">>
\* 'a@a.a@', a well-formed address followed by a second '@'
TrailingAt == <<"a", "@", "a", ".", "a", "@">>
\* 'a@a.a@a.a', two addresses glued together
TwoAddresses == <<"a", "@", "a", ".", "a", "@", "a", ".", "a">>
MailStrings == UNION {[1..n -> MailChars] : n \in 0..MaxMailLen}
Mails == MailStrings \cup {NoMail, OpsMail, NotAnEmail, TrailingAt, TwoAddresses}

\* destination tokens given to --output, --data-output and --log-output
Tokens == {"-", "--", DEVNULL, "out.pickle"}
\* values an optional string option can take
Opt(v) == {None, v}
\* EXCHANGE_NAMES is imported from bundle_utils; "poloniex" stands for a member
EXCHANGE_NAMES == {"poloniex"}
\* status vocabulary of the remote backend
Statuses == {"pending", "running", "completed", "failed"}
\* responses of get_remote_status: a bare status, or (status, perf, log)
BareResponses == {[tuple |-> FALSE, status |-> s, perf |-> None, log |-> None] : s \in Statuses}
TupleResponses == [tuple : {TRUE}, status : Statuses, perf : Opt("R"), log : Opt("L")]
Responses == BareResponses \cup TupleResponses
NoResponse == [tuple |-> FALSE, status |-> None, perf |-> None, log |-> None]

\* ------------------------------------------------------------- diagnostics
DiagExactlyOne == "must specify exactly one of '-f' / '--algofile' or '-t' / '--algotext'"
DiagDates == "must specify dates with '-s' / '--start' and '-e' / '--end' in backtest mode"
DiagStart == "must specify a start date with '-s' / '--start' in backtest mode"
DiagEnd == "must specify an end date with '-e' / '--end' in backtest mode"
DiagExchange == "must specify an exchange name '-x'"
DiagQuoteBacktest == "must specify a quote currency with '-c' in backtest mode"
DiagQuoteLive == "must specify a quote currency '-c' in live execution mode"
DiagCapital == "must specify a capital base with '--capital-base'"
DiagNamespace == "must specify an algorithm name '-n' in live execution mode"
DiagMail == "must specify a valid email with '--mail'"
DiagAlgoId == "must specify an id of your running algorithm with '--id'"
DiagIngest == "ingest-exchange does not support {}, please choose exchange from: EXCHANGE_NAMES"
OK == "ok"

\* cmd    the command being run            opt    its options after parsing
\* pc     where the handler is             trace  what it has made visible
\* files  content of the file at each path ret    value returned by _run or
\* resp   answer of get_remote_status             remote_backtest
\* kwargs the arguments handed to the collaborator
VARIABLES cmd, opt, pc, trace, files, ret, resp, kwargs

vars == <<cmd, opt, pc, trace, files, ret, resp, kwargs>>

\* ----------------------------------------------------------------- options
\* every option of every command, at the value click gives it when absent
Defaults ==
    [algofile |-> None, algotext |-> None, start |-> None, end |-> None,
     exchange_name |-> None, algo_namespace |-> None, quote_currency |-> None,
     capital_base |-> None, mail |-> NoMail, output |-> "-",
     simulate_orders |-> TRUE, algo_id |-> None, data_output |-> "-",
     log_output |-> "-", csv |-> None, include_symbols |-> None,
     exclude_symbols |-> None]

\* nothing has been handed to a collaborator yet
NoKwargs ==
    [live |-> None, simulate_orders |-> None, output |-> None, start |-> None,
     end |-> None, exchange |-> None, mail |-> NoMail, algo_id |-> None,
     include_symbols |-> None, exclude_symbols |-> None, csv |-> None]

\* one entry of the trace
Event(ev, to, tag, val) == [ev |-> ev, to |-> to, tag |-> tag, val |-> val]

\* --------------------------------------------------------- pure functions
\* no '@' among s[lo..hi]
NoAt(s, lo, hi) == \A n \in lo..hi : s[n] # "@"

\* the positions at which a match of [^@]+@[^@]+\.[^@]+ that starts at the
\* first character of s can end
MatchEnds(s) ==
    {k \in 1..Len(s) :
        \E i \in 1..k, j \in 1..k :
            /\ NoAt(s, 1, i)
            /\ i + 1 <= Len(s) /\ s[i + 1] = "@"
            /\ i + 2 <= j /\ NoAt(s, i + 2, j)
            /\ j + 1 <= Len(s) /\ s[j + 1] = "."
            /\ j + 2 <= k /\ NoAt(s, j + 2, k)}

\* re.match(r"[^@]+@[^@]+\.[^@]+", mail): a match anchored at the start of
\* the value only; what follows the match is not looked at
re_match(s) == MatchEnds(s) # {}

\* RunDiag without the joint check of start and end
RunDiag_Piecemeal(o) ==
    IF (o.algotext # None) = (o.algofile # None) THEN DiagExactlyOne
    ELSE IF o.start = None THEN DiagStart
    ELSE IF o.end = None THEN DiagEnd
    ELSE IF o.exchange_name = None THEN DiagExchange
    ELSE IF o.quote_currency = None THEN DiagQuoteBacktest
    ELSE IF o.capital_base = None THEN DiagCapital
    ELSE OK

\* the chain of checks at the top of run(): the first diagnostic, or OK
RunDiag(o) ==
    IF (o.algotext # None) = (o.algofile # None) THEN DiagExactlyOne
    ELSE IF o.start = None /\ o.end = None THEN DiagDates
    ELSE IF o.start = None THEN DiagStart
    ELSE IF o.end = None THEN DiagEnd
    ELSE IF o.exchange_name = None THEN DiagExchange
    ELSE IF o.quote_currency = None THEN DiagQuoteBacktest
    ELSE IF o.capital_base = None THEN DiagCapital
    ELSE OK

\* LiveDiag rejecting only the case where both sources are given
LiveDiag_BothOnly(o) ==
    IF o.algotext # None /\ o.algofile # None THEN DiagExactlyOne
    ELSE IF o.exchange_name = None THEN DiagExchange
    ELSE IF o.algo_namespace = None THEN DiagNamespace
    ELSE IF o.quote_currency = None THEN DiagQuoteLive
    ELSE IF o.capital_base = None THEN DiagCapital
    ELSE OK

\* the chain of checks at the top of live()
LiveDiag(o) ==
    IF (o.algotext # None) = (o.algofile # None) THEN DiagExactlyOne
    ELSE IF o.exchange_name = None THEN DiagExchange
    ELSE IF o.algo_namespace = None THEN DiagNamespace
    ELSE IF o.quote_currency = None THEN DiagQuoteLive
    ELSE IF o.capital_base = None THEN DiagCapital
    ELSE OK

\* RemoteRunDiag testing the mail right after the algorithm source
RemoteRunDiag_MailEarly(o) ==
    IF (o.algotext # None) = (o.algofile # None) THEN DiagExactlyOne
    ELSE IF o.mail = NoMail \/ ~re_match(o.mail) THEN DiagMail
    ELSE IF o.start = None /\ o.end = None THEN DiagDates
    ELSE IF o.start = None THEN DiagStart
    ELSE IF o.end = None THEN DiagEnd
    ELSE IF o.exchange_name = None THEN DiagExchange
    ELSE IF o.quote_currency = None THEN DiagQuoteBacktest
    ELSE IF o.capital_base = None THEN DiagCapital
    ELSE OK

\* the chain of checks at the top of remote_run()
RemoteRunDiag(o) ==
    IF (o.algotext # None) = (o.algofile # None) THEN DiagExactlyOne
    ELSE IF o.start = None /\ o.end = None THEN DiagDates
    ELSE IF o.start = None THEN DiagStart
    ELSE IF o.end = None THEN DiagEnd
    ELSE IF o.exchange_name = None THEN DiagExchange
    ELSE IF o.quote_currency = None THEN DiagQuoteBacktest
    ELSE IF o.capital_base = None THEN DiagCapital
    ELSE IF o.mail = NoMail \/ ~re_match(o.mail) THEN DiagMail
    ELSE OK

\* the check at the top of remote_status()
RemoteStatusDiag(o) ==
    IF o.algo_id = None THEN DiagAlgoId ELSE OK

\* IngestDiag testing the exchange set only when a CSV override is given
IngestDiag_CsvFlipped(o) ==
    IF o.exchange_name = None THEN DiagExchange
    ELSE IF ~(o.csv = None \/ o.csv = "") /\ o.exchange_name \notin EXCHANGE_NAMES
         THEN DiagIngest
    ELSE OK

\* the checks at the top of ingest_exchange(); `not csv` is also true of ''
IngestDiag(o) ==
    IF o.exchange_name = None THEN DiagExchange
    ELSE IF (o.csv = None \/ o.csv = "") /\ o.exchange_name \notin EXCHANGE_NAMES
         THEN DiagIngest
    ELSE OK

\* -------------------------------------------------------- building blocks
\* ctx.fail(message): the diagnostic goes to stderr and the command ends
Fail(d) ==
    /\ trace' = Append(trace, Event("fail", "stderr", "diag", d))
    /\ pc' = "failed"

\* click.echo(text, stream) and print(text)
Echo(stream, tag, val) ==
    trace' = Append(trace, Event("echo", stream, tag, val))

\* an exception leaves the handler: nothing after it runs
Raise(src, tag, what) ==
    /\ trace' = Append(trace, Event("raise", src, tag, what))
    /\ pc' = "crashed"

\* perf.to_pickle(path): the file is written, or the write fails and leaves
\* the file as it was or partly written
to_pickle(path, val, next) ==
    \/ /\ files' = [files EXCEPT ![path] = val]
       /\ trace' = Append(trace, Event("write", path, "perf", val))
       /\ pc' = next
    \/ /\ \E left \in {files[path], "partial"} :
              files' = [files EXCEPT ![path] = left]
       /\ Raise(path, "perf", "IOError")

\* with open(path, 'w') as file: file.write(log)
\*   open fails (file untouched); or open truncates the file and write(None)
\*   raises TypeError; or the text is written; or the write itself fails
write_log(path, log, next) ==
    \/ /\ UNCHANGED files
       /\ Raise(path, "log", "IOError")
    \/ /\ log = None
       /\ files' = [files EXCEPT ![path] = "empty"]
       /\ Raise(path, "log", "TypeError")
    \/ /\ log # None
       /\ files' = [files EXCEPT ![path] = log]
       /\ trace' = Append(trace, Event("write", path, "log", log))
       /\ pc' = next
    \/ /\ log # None
       /\ \E left \in {"empty", "partial"} :
              files' = [files EXCEPT ![path] = left]
       /\ Raise(path, "log", "IOError")

\* ------------------------------------------------------------------- Init
Init ==
    /\ cmd = None
    /\ opt = Defaults
    /\ pc = "idle"
    /\ trace = <<>>
    /\ files = [t \in Tokens |-> "absent"]
    /\ ret = None
    /\ resp = NoResponse
    /\ kwargs = NoKwargs

\* ----------------------------------------------------- command line parsing
\* click binds the options of `run` (decorators above the handler)
invoke_run ==
    /\ pc = "idle"
    /\ \E af \in Opt("algo.py"), at \in Opt("pass"), s \in Opt("2017-1-1"),
          e \in Opt("2017-2-1"), x \in Opt("poloniex"), n \in Opt("ns"),
          c \in Opt("usd"), cb \in Opt("1000"), out \in Tokens :
          opt' = [Defaults EXCEPT !.algofile = af, !.algotext = at,
                     !.start = s, !.end = e, !.exchange_name = x,
                     !.algo_namespace = n, !.quote_currency = c,
                     !.capital_base = cb, !.output = out]
    /\ cmd' = "run"
    /\ pc' = "run:validate"
    /\ UNCHANGED <<trace, files, ret, resp, kwargs>>

\* click binds the options of `live`
invoke_live ==
    /\ pc = "idle"
    /\ \E af \in Opt("algo.py"), at \in Opt("pass"), s \in Opt("2017-1-1"),
          e \in Opt("2017-2-1"), x \in Opt("poloniex"), n \in Opt("ns"),
          c \in Opt("usd"), cb \in Opt("1000"), out \in Tokens,
          sim \in BOOLEAN :
          opt' = [Defaults EXCEPT !.algofile = af, !.algotext = at,
                     !.start = s, !.end = e, !.exchange_name = x,
                     !.algo_namespace = n, !.quote_currency = c,
                     !.capital_base = cb, !.output = out,
                     !.simulate_orders = sim]
    /\ cmd' = "live"
    /\ pc' = "live:validate"
    /\ UNCHANGED <<trace, files, ret, resp, kwargs>>

\* click binds the options of `remote-run`
invoke_remote_run ==
    /\ pc = "idle"
    /\ \E af \in Opt("algo.py"), at \in Opt("pass"), s \in Opt("2017-1-1"),
          e \in Opt("2017-2-1"), x \in Opt("poloniex"), n \in Opt("ns"),
          c \in Opt("usd"), cb \in Opt("1000"), m \in Mails :
          opt' = [Defaults EXCEPT !.algofile = af, !.algotext = at,
                     !.start = s, !.end = e, !.exchange_name = x,
                     !.algo_namespace = n, !.quote_currency = c,
                     !.capital_base = cb, !.mail = m]
    /\ cmd' = "remote-run"
    /\ pc' = "remote-run:validate"
    /\ UNCHANGED <<trace, files, ret, resp, kwargs>>

\* click binds the options of `remote-status`
invoke_remote_status ==
    /\ pc = "idle"
    /\ \E id \in Opt("job-1"), d \in Tokens, l \in Tokens :
          opt' = [Defaults EXCEPT !.algo_id = id, !.data_output = d,
                     !.log_output = l]
    /\ cmd' = "remote-status"
    /\ pc' = "remote-status:validate"
    /\ UNCHANGED <<trace, files, ret, resp, kwargs>>

\* click binds the options of `ingest-exchange`
invoke_ingest_exchange ==
    /\ pc = "idle"
    /\ \E x \in {None, "poloniex", "unknownxyz"}, csv \in {None, "", "data.csv"},
          s \in Opt("2017-1-1"), e \in Opt("2017-2-1"),
          inc \in Opt("btc_usdt"), exc \in Opt("eth_usdt") :
          opt' = [Defaults EXCEPT !.exchange_name = x, !.csv = csv,
                     !.start = s, !.end = e, !.include_symbols = inc,
                     !.exclude_symbols = exc]
    /\ cmd' = "ingest-exchange"
    /\ pc' = "ingest-exchange:validate"
    /\ UNCHANGED <<trace, files, ret, resp, kwargs>>

\* ------------------------------------------------------------------- run
run_validate ==
    /\ pc = "run:validate"
    /\ IF RunDiag(opt) # OK THEN Fail(RunDiag(opt))
       ELSE pc' = "run:echo" /\ UNCHANGED trace
    /\ UNCHANGED <<cmd, opt, files, ret, resp, kwargs>>

\* click.echo('Running in backtesting mode.', sys.stdout)
run_echo ==
    /\ pc = "run:echo"
    /\ Echo("stdout", "mode", "backtesting")
    /\ pc' = "run:_run"
    /\ UNCHANGED <<cmd, opt, files, ret, resp, kwargs>>

\* perf = _run(..., live=False, simulate_orders=True, ...)
run_call ==
    /\ pc = "run:_run"
    /\ kwargs' = [NoKwargs EXCEPT !.live = "False", !.simulate_orders = "True",
                     !.output = opt.output, !.start = opt.start,
                     !.end = opt.end, !.exchange = opt.exchange_name]
    /\ \/ /\ trace' = Append(trace, Event("call", "_run", "live", "False"))
          /\ ret' = "R"
          /\ pc' = "run:output"
       \/ /\ trace' = Append(Append(trace, Event("call", "_run", "live", "False")),
                             Event("raise", "_run", "exception", "Exception"))
          /\ pc' = "crashed"
          /\ UNCHANGED ret
    /\ UNCHANGED <<cmd, opt, files, resp>>

\* the if/elif chain on `output` that ends run()
run_output ==
    /\ pc = "run:output"
    /\ IF opt.output = "--"
          THEN pc' = "done" /\ UNCHANGED <<trace, files>>
       ELSE IF opt.output = "-"
          THEN Echo("stdout", "perf", Str(ret)) /\ pc' = "done" /\ UNCHANGED files
       ELSE IF opt.output # DEVNULL
          THEN to_pickle(opt.output, ret, "done")
       ELSE pc' = "done" /\ UNCHANGED <<trace, files>>
    /\ UNCHANGED <<cmd, opt, ret, resp, kwargs>>

\* ------------------------------------------------------------------ live
live_validate ==
    /\ pc = "live:validate"
    /\ IF LiveDiag(opt) # OK THEN Fail(LiveDiag(opt))
       ELSE pc' = "live:echo" /\ UNCHANGED trace
    /\ UNCHANGED <<cmd, opt, files, ret, resp, kwargs>>

\* 'Running in paper trading mode.' or 'Running in live trading mode.'
live_echo ==
    /\ pc = "live:echo"
    /\ IF opt.simulate_orders THEN Echo("stdout", "mode", "paper trading")
       ELSE Echo("stdout", "mode", "live trading")
    /\ pc' = "live:_run"
    /\ UNCHANGED <<cmd, opt, files, ret, resp, kwargs>>

\* perf = _run(..., live=True, simulate_orders=simulate_orders, ...)
live_call ==
    /\ pc = "live:_run"
    /\ kwargs' = [NoKwargs EXCEPT !.live = "True",
                     !.simulate_orders = IF opt.simulate_orders THEN "True" ELSE "False",
                     !.output = opt.output, !.start = opt.start,
                     !.end = opt.end, !.exchange = opt.exchange_name]
    /\ \/ /\ trace' = Append(trace, Event("call", "_run", "live", "True"))
          /\ ret' = "R"
          /\ pc' = "live:output"
       \/ /\ trace' = Append(Append(trace, Event("call", "_run", "live", "True")),
                             Event("raise", "_run", "exception", "Exception"))
          /\ pc' = "crashed"
          /\ UNCHANGED ret
    /\ UNCHANGED <<cmd, opt, files, resp>>

\* the if/elif on `output` that ends live(): there is no '--' branch
live_output ==
    /\ pc = "live:output"
    /\ IF opt.output = "-"
          THEN Echo("stdout", "perf", Str(ret)) /\ pc' = "done" /\ UNCHANGED files
       ELSE IF opt.output # DEVNULL
          THEN to_pickle(opt.output, ret, "done")
       ELSE pc' = "done" /\ UNCHANGED <<trace, files>>
    /\ UNCHANGED <<cmd, opt, ret, resp, kwargs>>

\* ------------------------------------------------------------ remote-run
remote_run_validate ==
    /\ pc = "remote-run:validate"
    /\ IF RemoteRunDiag(opt) # OK THEN Fail(RemoteRunDiag(opt))
       ELSE pc' = "remote-run:submit" /\ UNCHANGED trace
    /\ UNCHANGED <<cmd, opt, files, ret, resp, kwargs>>

\* remote_run_submit calling the submitter a second time when the first call
\* raises
remote_run_submit_Retry ==
    /\ pc = "remote-run:submit"
    /\ kwargs' = [NoKwargs EXCEPT !.live = "False", !.simulate_orders = "True",
                     !.output = "--", !.start = opt.start, !.end = opt.end,
                     !.exchange = opt.exchange_name, !.mail = opt.mail]
    /\ \/ /\ trace' = Append(trace, Event("call", "remote_backtest", "live", "False"))
          /\ ret' = "job-1"
          /\ pc' = "remote-run:print"
       \/ /\ trace' = Append(Append(trace, Event("call", "remote_backtest", "live", "False")),
                             Event("call", "remote_backtest", "live", "False"))
          /\ ret' = "job-1"
          /\ pc' = "remote-run:print"
    /\ UNCHANGED <<cmd, opt, files, resp>>

\* algo_id = remote_backtest(..., output='--', live=False, mail=mail): the
\* call returns an identifier, or its exception leaves the handler
remote_run_submit ==
    /\ pc = "remote-run:submit"
    /\ kwargs' = [NoKwargs EXCEPT !.live = "False", !.simulate_orders = "True",
                     !.output = "--", !.start = opt.start, !.end = opt.end,
                     !.exchange = opt.exchange_name, !.mail = opt.mail]
    /\ \/ /\ trace' = Append(trace, Event("call", "remote_backtest", "live", "False"))
          /\ ret' = "job-1"
          /\ pc' = "remote-run:print"
       \/ /\ trace' = Append(Append(trace, Event("call", "remote_backtest", "live", "False")),
                             Event("raise", "remote_backtest", "exception", "Exception"))
          /\ pc' = "crashed"
          /\ UNCHANGED ret
    /\ UNCHANGED <<cmd, opt, files, resp>>

\* print(algo_id)
remote_run_print ==
    /\ pc = "remote-run:print"
    /\ Echo("stdout", "algo_id", Str(ret))
    /\ pc' = "done"
    /\ UNCHANGED <<cmd, opt, files, ret, resp, kwargs>>

\* --------------------------------------------------------- remote-status
remote_status_validate ==
    /\ pc = "remote-status:validate"
    /\ IF RemoteStatusDiag(opt) # OK THEN Fail(RemoteStatusDiag(opt))
       ELSE pc' = "remote-status:poll" /\ UNCHANGED trace
    /\ UNCHANGED <<cmd, opt, files, ret, resp, kwargs>>

\* remote_status_poll without the isinstance test: every response is unpacked
remote_status_poll_NoTupleTest ==
    /\ pc = "remote-status:poll"
    /\ kwargs' = [NoKwargs EXCEPT !.algo_id = opt.algo_id]
    /\ trace' = Append(trace, Event("call", "get_remote_status", "algo_id", opt.algo_id))
    /\ \E r \in Responses : resp' = r
    /\ pc' = "remote-status:log"
    /\ UNCHANGED <<cmd, opt, files, ret>>

\* status_response = get_remote_status(algo_id=algo_id), then the
\* isinstance(status_response, tuple) test
remote_status_poll ==
    /\ pc = "remote-status:poll"
    /\ kwargs' = [NoKwargs EXCEPT !.algo_id = opt.algo_id]
    /\ \/ /\ trace' = Append(trace, Event("call", "get_remote_status", "algo_id", opt.algo_id))
          /\ \E r \in Responses : resp' = r
          /\ pc' = IF resp'.tuple THEN "remote-status:log" ELSE "remote-status:bare"
       \/ /\ trace' = Append(Append(trace, Event("call", "get_remote_status", "algo_id", opt.algo_id)),
                             Event("raise", "get_remote_status", "exception", "Exception"))
          /\ pc' = "crashed"
          /\ UNCHANGED resp
    /\ UNCHANGED <<cmd, opt, files, ret>>

\* the if/elif on log_output: the log is not tested for None
remote_status_log ==
    /\ pc = "remote-status:log"
    /\ IF opt.log_output = "-"
          THEN /\ Echo("stderr", "log", Str(resp.log))
               /\ pc' = "remote-status:perf"
               /\ UNCHANGED files
       ELSE IF opt.log_output # DEVNULL
          THEN write_log(opt.log_output, resp.log, "remote-status:perf")
       ELSE pc' = "remote-status:perf" /\ UNCHANGED <<trace, files>>
    /\ UNCHANGED <<cmd, opt, ret, resp, kwargs>>

\* if perf is not None: the if/elif on data_output
remote_status_perf ==
    /\ pc = "remote-status:perf"
    /\ IF resp.perf # None
          THEN IF opt.data_output = "-"
                  THEN /\ Echo("stdout", "labelled perf", Str(resp.perf))
                       /\ pc' = "remote-status:print"
                       /\ UNCHANGED files
               ELSE IF opt.data_output # DEVNULL
                  THEN to_pickle(opt.data_output, resp.perf, "remote-status:print")
               ELSE pc' = "remote-status:print" /\ UNCHANGED <<trace, files>>
       ELSE pc' = "remote-status:print" /\ UNCHANGED <<trace, files>>
    /\ UNCHANGED <<cmd, opt, ret, resp, kwargs>>

\* print(status) at the end of the tuple branch
remote_status_print ==
    /\ pc = "remote-status:print"
    /\ Echo("stdout", "status", Str(resp.status))
    /\ pc' = "done"
    /\ UNCHANGED <<cmd, opt, files, ret, resp, kwargs>>

\* the else branch: print(status_response)
remote_status_bare ==
    /\ pc = "remote-status:bare"
    /\ Echo("stdout", "status", Str(resp.status))
    /\ pc' = "done"
    /\ UNCHANGED <<cmd, opt, files, ret, resp, kwargs>>

\* ------------------------------------------------------- ingest-exchange
ingest_exchange_validate ==
    /\ pc = "ingest-exchange:validate"
    /\ IF IngestDiag(opt) # OK THEN Fail(IngestDiag(opt))
       ELSE pc' = "ingest-exchange:bundle" /\ UNCHANGED trace
    /\ UNCHANGED <<cmd, opt, files, ret, resp, kwargs>>

\* exchange_bundle = ExchangeBundle(exchange_name), then the click.echo
ingest_exchange_bundle ==
    /\ pc = "ingest-exchange:bundle"
    /\ trace' = Append(Append(trace,
                    Event("call", "ExchangeBundle", "exchange", opt.exchange_name)),
                    Event("echo", "stdout", "ingest", opt.exchange_name))
    /\ pc' = "ingest-exchange:ingest"
    /\ UNCHANGED <<cmd, opt, files, ret, resp, kwargs>>

\* ingest_exchange_ingest leaving the date range and the symbol filters out
\* of the request when a CSV path is given
ingest_exchange_ingest_DropsFilters ==
    /\ pc = "ingest-exchange:ingest"
    /\ kwargs' = IF opt.csv \in {None, ""}
                    THEN [NoKwargs EXCEPT !.exchange = opt.exchange_name,
                             !.start = opt.start, !.end = opt.end,
                             !.include_symbols = opt.include_symbols,
                             !.exclude_symbols = opt.exclude_symbols,
                             !.csv = opt.csv]
                    ELSE [NoKwargs EXCEPT !.exchange = opt.exchange_name,
                             !.csv = opt.csv]
    /\ \/ /\ trace' = Append(trace, Event("call", "ingest", "exchange", opt.exchange_name))
          /\ pc' = "done"
       \/ /\ trace' = Append(Append(trace, Event("call", "ingest", "exchange", opt.exchange_name)),
                             Event("raise", "ingest", "exception", "Exception"))
          /\ pc' = "crashed"
    /\ UNCHANGED <<cmd, opt, files, ret, resp>>

\* exchange_bundle.ingest(..., start=start, end=end, csv=csv)
ingest_exchange_ingest ==
    /\ pc = "ingest-exchange:ingest"
    /\ kwargs' = [NoKwargs EXCEPT !.exchange = opt.exchange_name,
                     !.start = opt.start, !.end = opt.end,
                     !.include_symbols = opt.include_symbols,
                     !.exclude_symbols = opt.exclude_symbols,
                     !.csv = opt.csv]
    /\ \/ /\ trace' = Append(trace, Event("call", "ingest", "exchange", opt.exchange_name))
          /\ pc' = "done"
       \/ /\ trace' = Append(Append(trace, Event("call", "ingest", "exchange", opt.exchange_name)),
                             Event("raise", "ingest", "exception", "Exception"))
          /\ pc' = "crashed"
    /\ UNCHANGED <<cmd, opt, files, ret, resp>>

\* ------------------------------------------------------------------ Next
Next ==
    \/ invoke_run
    \/ invoke_live
    \/ invoke_remote_run
    \/ invoke_remote_status
    \/ invoke_ingest_exchange
    \/ run_validate
    \/ run_echo
    \/ run_call
    \/ run_output
    \/ live_validate
    \/ live_echo
    \/ live_call
    \/ live_output
    \/ remote_run_validate
    \/ remote_run_submit
    \/ remote_run_print
    \/ remote_status_validate
    \/ remote_status_poll
    \/ remote_status_log
    \/ remote_status_perf
    \/ remote_status_print
    \/ remote_status_bare
    \/ ingest_exchange_validate
    \/ ingest_exchange_bundle
    \/ ingest_exchange_ingest

Spec == Init /\ [][Next]_vars

\* ------------------------------------------------------------ type check
TypeOK ==
    /\ pc \in {"idle", "failed", "crashed", "done",
               "run:validate", "run:echo", "run:_run", "run:output",
               "live:validate", "live:echo", "live:_run", "live:output",
               "remote-run:validate", "remote-run:submit", "remote-run:print",
               "remote-status:validate", "remote-status:poll",
               "remote-status:log", "remote-status:perf",
               "remote-status:print", "remote-status:bare",
               "ingest-exchange:validate", "ingest-exchange:bundle",
               "ingest-exchange:ingest"}
    /\ cmd \in {None, "run", "live", "remote-run", "remote-status", "ingest-exchange"}
    /\ resp \in Responses \cup {NoResponse}
    /\ \A t \in Tokens : files[t] \in {"absent", "empty", "partial", "R", "L"}

\* ------------------------------------------------- vocabulary of the claims
\* positions of the trace that hold an event of kind ev
Ev(ev) == {i \in DOMAIN trace : trace[i].ev = ev}
\* calls made to the collaborator named f
CallsTo(f) == {i \in Ev("call") : trace[i].to = f}
\* console lines and file writes that carry the artifact tagged tag
EchoesOf(tag) == {i \in Ev("echo") : trace[i].tag = tag}
WritesOf(tag) == {i \in Ev("write") : trace[i].tag = tag}
\* no file exists at any path
NoFiles == \A t \in Tokens : files[t] = "absent"
\* the handler is still checking its options
Validating ==
    pc \in {"run:validate", "live:validate", "remote-run:validate",
            "remote-status:validate", "ingest-exchange:validate"}
\* the validation of the invocation has been decided
Decided == pc # "idle" /\ ~Validating
\* the invocation ended in exactly the diagnostic d and did nothing else
FailedWith(d) ==
    /\ pc = "failed"
    /\ trace = <<Event("fail", "stderr", "diag", d)>>
    /\ NoFiles
    /\ kwargs = NoKwargs
\* exactly one of algofile / algotext is supplied
OneSource(o) == (o.algofile = None) # (o.algotext = None)

\* the rules of each command, as a set of requirements without an order
BacktestRules(o) ==
    /\ OneSource(o)
    /\ o.start # None /\ o.end # None
    /\ o.exchange_name # None /\ o.quote_currency # None /\ o.capital_base # None
LiveRules(o) ==
    /\ OneSource(o)
    /\ o.exchange_name # None /\ o.algo_namespace # None
    /\ o.quote_currency # None /\ o.capital_base # None
MailRule(o) == o.mail # NoMail /\ re_match(o.mail)
IngestRules(o) ==
    /\ o.exchange_name # None
    /\ (o.csv \in {None, ""}) => o.exchange_name \in EXCHANGE_NAMES
Valid(c, o) ==
    CASE c = "run" -> BacktestRules(o)
      [] c = "live" -> LiveRules(o)
      [] c = "remote-run" -> BacktestRules(o) /\ MailRule(o)
      [] c = "remote-status" -> o.algo_id # None
      [] c = "ingest-exchange" -> IngestRules(o)
      [] OTHER -> TRUE

C2_ExactlyOneSource ==
    (cmd \in {"run", "live", "remote-run"} /\ Decided) =>
        /\ ~OneSource(opt) =>
              /\ FailedWith(DiagExactlyOne)
              /\ CallsTo("_run") = {} /\ CallsTo("remote_backtest") = {}
        /\ OneSource(opt) =>
              \A i \in DOMAIN trace : trace[i].val # DiagExactlyOne

\* live was given both sources and otherwise complete options, and failed
C2_Witness ==
    /\ cmd = "live" /\ pc = "failed"
    /\ opt.algofile # None /\ opt.algotext # None
    /\ opt.exchange_name # None /\ opt.algo_namespace # None
    /\ opt.quote_currency # None /\ opt.capital_base # None

\* C3: in run and remote-run with exactly one algorithm source, start without
\* end fails naming end, end without start fails naming start, and neither
\* fails with the joint diagnostic, whatever the remaining options
C3_MissingDates ==
    (cmd \in {"run", "remote-run"} /\ Decided /\ OneSource(opt)) =>
        /\ (opt.start # None /\ opt.end = None) => FailedWith(DiagEnd)
        /\ (opt.start = None /\ opt.end # None) => FailedWith(DiagStart)
        /\ (opt.start = None /\ opt.end = None) => FailedWith(DiagDates)

\* remote-run without any date but with every other option has failed
C3_Witness ==
    /\ cmd = "remote-run" /\ pc = "failed"
    /\ OneSource(opt) /\ opt.start = None /\ opt.end = None
    /\ opt.exchange_name # None /\ opt.quote_currency # None
    /\ opt.capital_base # None /\ opt.mail = OpsMail

\* the value as a whole reads local-part@domain.tld: one '@' with a non-empty
\* local part before it, and after it a '.' that has a non-empty domain label
\* before it and a non-empty tld behind it
WholeShape(s) ==
    \E p \in 2..Len(s) :
        /\ s[p] = "@"
        /\ \A n \in 1..Len(s) : s[n] = "@" => n = p
        /\ \E q \in (p + 2)..(Len(s) - 1) : s[q] = "."

\* C4: remote-run calls the submitter only if mail is present and has the
\* shape local-part@domain.tld as a whole; any other mail is rejected with the
\* mail diagnostic before a submission, and 'ops@example.com' passes
C4_MailShapeGate ==
    (cmd = "remote-run" /\ Decided) =>
        /\ CallsTo("remote_backtest") # {} =>
              opt.mail # NoMail /\ WholeShape(opt.mail)
        /\ (BacktestRules(opt) /\ (opt.mail = NoMail \/ ~WholeShape(opt.mail))) =>
              FailedWith(DiagMail)
        /\ (BacktestRules(opt) /\ opt.mail = OpsMail) => pc # "failed"

\* the log and the result of a triple response have both been dealt with
\* without an exception
ArtifactsDone ==
    /\ cmd = "remote-status" /\ resp.tuple
    /\ pc \in {"remote-status:print", "done"}
\* what was sent to the destination of the log, and of the result
LogOutputs == EchoesOf("log") \cup WritesOf("log")
PerfOutputs == EchoesOf("labelled perf") \cup WritesOf("perf")

\* C5: for a triple response the log is written iff it is present and its
\* destination is not the discard sentinel, and an absent log is no error;
\* the result is written iff it is present and its destination is not the
\* discard sentinel; with '-' the log goes to stderr and the labelled result
\* to stdout
C5_WrittenIffPresent ==
    /\ ArtifactsDone =>
          /\ LogOutputs # {} <=> (resp.log # None /\ opt.log_output # DEVNULL)
          /\ PerfOutputs # {} <=> (resp.perf # None /\ opt.data_output # DEVNULL)
          /\ \A i \in LogOutputs : opt.log_output = "-" =>
                trace[i].ev = "echo" /\ trace[i].to = "stderr"
          /\ \A i \in PerfOutputs : opt.data_output = "-" =>
                trace[i].ev = "echo" /\ trace[i].to = "stdout"
    /\ (cmd = "remote-status" /\ resp.tuple /\ resp.log = None) =>
          \A i \in Ev("raise") : trace[i].val # "TypeError"

\* C6: whenever a remote-status invocation that received a triple has ended,
\* the status has been printed exactly once and is the last entry of its
\* output, after every log and result write
C6_StatusLast ==
    (cmd = "remote-status" /\ resp.tuple /\ pc \in {"done", "crashed"}) =>
        /\ Cardinality(EchoesOf("status")) = 1
        /\ trace[Len(trace)].tag = "status"
        /\ \A i \in LogOutputs \cup PerfOutputs : i < Len(trace)

\* C7: after a bare status response nothing is written to the data or log
\* destination, whatever they are, and the status is the only output
C7_BareWritesNothing ==
    (cmd = "remote-status" /\ resp # NoResponse /\ ~resp.tuple) =>
        /\ NoFiles
        /\ Ev("write") = {} /\ LogOutputs = {} /\ PerfOutputs = {}
        /\ Ev("echo") \subseteq EchoesOf("status")
        /\ pc \in {"remote-status:bare", "done"}
        /\ pc = "done" =>
              /\ Len(trace) = 2
              /\ trace[2] = Event("echo", "stdout", "status", resp.status)

\* a bare 'running' was reported with both destinations naming files
C7_Witness ==
    /\ cmd = "remote-status" /\ pc = "done" /\ ~resp.tuple
    /\ resp.status = "running"
    /\ opt.data_output = "out.pickle" /\ opt.log_output = "--"

\* C8: when the write of the log to its destination fails, the result, if
\* present and not discarded, is still written to the data destination
C8_LogFailureKeepsResult ==
    (/\ cmd = "remote-status" /\ resp.tuple /\ pc \in {"done", "crashed"}
     /\ \E i \in Ev("raise") : trace[i].tag = "log" /\ trace[i].val = "IOError"
     /\ resp.perf # None /\ opt.data_output # DEVNULL) =>
        PerfOutputs # {}

\* what a destination token has to resolve to: nothing for '--' and for the
\* discard sentinel, one console line for '-', one file write at the path
\* for any other token
ResolvedAsSpecified(token, outs) ==
    IF token \in {"--", DEVNULL}
        THEN outs = {} /\ files[token] = "absent"
    ELSE IF token = "-"
        THEN Cardinality(outs) = 1 /\ \A i \in outs : trace[i].ev = "echo"
    ELSE /\ Cardinality(outs) = 1
         /\ \A i \in outs : trace[i].ev = "write" /\ trace[i].to = token

\* C9: in run, live and remote-status alike, an existing artifact is never
\* written for '--' nor for the discard sentinel, goes to the console for
\* '-', and is persisted exactly once at the path for any other token
C9_SameResolutionEverywhere ==
    /\ (cmd \in {"run", "live"} /\ pc = "done") =>
          ResolvedAsSpecified(opt.output, EchoesOf("perf") \cup WritesOf("perf"))
    /\ (cmd = "remote-status" /\ pc = "done" /\ resp.tuple /\ resp.perf # None) =>
          ResolvedAsSpecified(opt.data_output, PerfOutputs)
    /\ (cmd = "remote-status" /\ pc = "done" /\ resp.tuple /\ resp.log # None) =>
          ResolvedAsSpecified(opt.log_output, LogOutputs)

\* calls made to the remote transport
TransportCalls == CallsTo("remote_backtest") \cup CallsTo("get_remote_status")

\* C10: an invocation calls the remote transport at most once.  A validated
\* remote-run has submitted exactly once; when the submission raised, the
\* exception is the last thing that happened and no identifier was printed;
\* when it returned, the identifier is printed exactly once.  A remote-status
\* that went past validation has polled exactly once, whatever the status
C10_SingleTransportCall ==
    /\ Cardinality(TransportCalls) <= 1
    /\ (cmd = "remote-run" /\ pc \in {"remote-run:print", "done", "crashed"}) =>
          Cardinality(CallsTo("remote_backtest")) = 1
    /\ (cmd = "remote-run" /\ pc = "crashed") =>
          /\ EchoesOf("algo_id") = {} /\ ret = None
          /\ trace[Len(trace)] = Event("raise", "remote_backtest", "exception", "Exception")
    /\ (cmd = "remote-run" /\ pc = "done") =>
          /\ Cardinality(EchoesOf("algo_id")) = 1
          /\ trace[Len(trace)] = Event("echo", "stdout", "algo_id", ret)
    /\ (cmd = "remote-status" /\ Decided /\ pc \notin {"failed", "remote-status:poll"}) =>
          Cardinality(CallsTo("get_remote_status")) = 1

\* the submission of a validated remote-run raised
C10_Witness ==
    /\ cmd = "remote-run" /\ pc = "crashed"
    /\ CallsTo("remote_backtest") # {}

\* a CSV override path is supplied (`not csv` is false)
CsvGiven(o) == o.csv \notin {None, ""}
\* the ingestion engine has been constructed or called
EngineInvoked == CallsTo("ExchangeBundle") # {} \/ CallsTo("ingest") # {}
\* exchange_bundle.ingest has been called
IngestCalled ==
    cmd = "ingest-exchange" /\ pc \in {"done", "crashed"} /\ CallsTo("ingest") # {}

\* the validation part of C11: an absent exchange name fails; without a CSV
\* path a name outside the known set fails with the diagnostic that lists
\* the set and the engine is never invoked; with a CSV path any name passes
C11_IngestValidation ==
    (cmd = "ingest-exchange" /\ Decided) =>
        /\ opt.exchange_name = None => FailedWith(DiagExchange)
        /\ (opt.exchange_name # None /\ ~CsvGiven(opt)
               /\ opt.exchange_name \notin EXCHANGE_NAMES) =>
              FailedWith(DiagIngest) /\ ~EngineInvoked
        /\ (opt.exchange_name # None /\ CsvGiven(opt)) =>
              pc # "failed" /\ Ev("fail") = {}

Downstream(c) == IF c = "remote-run" THEN "remote_backtest" ELSE "_run"
LiveFlag(c) == IF c = "live" THEN "True" ELSE "False"
\* the mode an invocation has to report
ModeOf(c, o) ==
    IF c = "live"
        THEN IF o.simulate_orders THEN "paper trading" ELSE "live trading"
    ELSE "backtesting"
\* the handler is past the point where it calls its downstream action
PastCall ==
    pc \in {"run:output", "live:output", "remote-run:print", "done", "crashed"}

\* the routing of a validated run, live or remote-run in commands cs: one
\* downstream call at most, to the command's own collaborator with the
\* command's live flag, the mode reported once and before the call, and the
\* reported mode in agreement with the live / simulate_orders flags passed
RoutedAndReported(cs) ==
    (cmd \in cs /\ Decided /\ Valid(cmd, opt)) =>
        /\ pc # "failed"
        /\ Cardinality(Ev("call")) <= 1
        /\ PastCall => Cardinality(Ev("call")) = 1
        /\ \A i \in Ev("call") :
              /\ trace[i] = Event("call", Downstream(cmd), "live", LiveFlag(cmd))
              /\ kwargs.live = LiveFlag(cmd)
              /\ kwargs.simulate_orders =
                    (IF cmd = "live" /\ ~opt.simulate_orders THEN "False" ELSE "True")
              /\ \E j \in 1..(i - 1) :
                    trace[j] = Event("echo", "stdout", "mode", ModeOf(cmd, opt))
        /\ Cardinality(EchoesOf("mode")) <= 1
        /\ \A j \in EchoesOf("mode") : trace[j].val = ModeOf(cmd, opt)

\* C12: every validated run, live and remote-run invocation routes to exactly
\* one downstream action (run: local runner with live disabled, live: local
\* runner with live enabled, remote-run: remote submitter) and reports its
\* mode before that action starts ('backtesting', 'paper trading' or 'live
\* trading'), in agreement with the flags passed downstream
C12_RoutedAndModeReported == RoutedAndReported({"run", "live", "remote-run"})

\* one rule of a command: whether o violates it, and its diagnostic
Rule(violated, diag) == [violated |-> violated, diag |-> diag]
SourceRule(o) == Rule(~OneSource(o), DiagExactlyOne)
DatesRule(o) ==
    Rule(o.start = None \/ o.end = None,
         IF o.start = None /\ o.end = None THEN DiagDates
         ELSE IF o.start = None THEN DiagStart ELSE DiagEnd)
ExchangeRule(o) == Rule(o.exchange_name = None, DiagExchange)
NamespaceRule(o) == Rule(o.algo_namespace = None, DiagNamespace)
QuoteRule(o, d) == Rule(o.quote_currency = None, d)
CapitalRule(o) == Rule(o.capital_base = None, DiagCapital)
MailRuleOf(o) == Rule(~MailRule(o), DiagMail)

\* the rules of each command in the order they are to be checked
RuleOrder(c, o) ==
    CASE c = "run" ->
            <<SourceRule(o), DatesRule(o), ExchangeRule(o),
              QuoteRule(o, DiagQuoteBacktest), CapitalRule(o)>>
      [] c = "remote-run" ->
            <<SourceRule(o), DatesRule(o), ExchangeRule(o),
              QuoteRule(o, DiagQuoteBacktest), CapitalRule(o), MailRuleOf(o)>>
      [] c = "live" ->
            <<SourceRule(o), ExchangeRule(o), NamespaceRule(o),
              QuoteRule(o, DiagQuoteLive), CapitalRule(o)>>
      [] OTHER -> <<>>
\* the positions of the violated rules
ViolatedAt(rules) == {i \in DOMAIN rules : rules[i].violated}
\* the first of them
FirstViolated(rules) ==
    CHOOSE i \in ViolatedAt(rules) : \A k \in ViolatedAt(rules) : i <= k

====
